---------------------------- MODULE Spec2Model ----------------------------
(***************************************************************************)
(* A model of pystream-protobuf's stream/stream.py: the Stream class in    *)
(* write mode (write / flush / close / __exit__ over a byte channel) and   *)
(* in read mode (__next__ over the bytes a writer produced).               *)
(*                                                                         *)
(* The channel is a sequence of bytes (0..255).  A message object is       *)
(* identified with the byte-string SerializeToString() returns for it.     *)
(* gzip is a transparent byte transform and is left out: the channel holds *)
(* the decompressed bytes.                                                 *)
(***************************************************************************)
EXTENDS Integers, Sequences, FiniteSets, TLC

(***************************************************************************)
(* Bounds of the model.                                                    *)
(***************************************************************************)
\* Number of write()/flush()/close() calls made on the write handle.
MaxCalls == 4
\* Total number of message objects passed to write() over a run.
MaxMsgs == 3
\* The same two bounds on a channel whose writes may raise.
MaxCallsFail == 3
MaxMsgsFail == 2
\* Largest positive buffer_size tried (0 and -1 are always tried).
MaxBufferSize == 2
\* Length of the long message: its size varint takes two bytes.
LongLen == 128
\* An injected channel failure hits the k-th fd.write of a call, k <= MaxFail.
MaxFail == 5
\* Number of channel failures injected over a run.
MaxFaults == 1
\* __next__ calls still made after the first StopIteration or error.
MaxExtra == 1
\* Length of the arbitrary byte streams given to a read handle.
MaxStreamLen == 4
\* Base-128 digits of the values whose varint is read on its own, the
\* largest value of the dense range, and the length of what follows a varint.
MaxDigits == 3
MaxSmall == 300
MaxTailLen == 1

(***************************************************************************)
(* Messages.                                                               *)
(***************************************************************************)
MsgA == <<65>>
MsgEmpty == <<>>
MsgLong == [i \in 1..LongLen |-> 76]

\* The serialized messages a caller may pass to write().
Msgs == {MsgEmpty, MsgA, MsgLong}

\* obj.SerializeToString(): an object is identified with its serialization.
SerializeToString(obj) == obj

\* All argument tuples of at most n messages.
RECURSIVE Tuples(_)
Tuples(n) ==
    IF n = 0 THEN {<<>>}
    ELSE LET T == Tuples(n - 1)
         IN  T \cup {Append(t, m) : t \in {u \in T : Len(u) = n - 1}, m \in Msgs}

RECURSIVE Flatten(_)
Flatten(gs) == IF gs = <<>> THEN <<>> ELSE Head(gs) \o Flatten(Tail(gs))

(***************************************************************************)
(* The channel: fd.write(bytes).  It raises when the channel is closed     *)
(* (ValueError: I/O operation on closed file) and when a failure is        *)
(* injected: fail = k > 0 makes the k-th fd.write of the current call      *)
(* raise, fail = 0 injects nothing.  st is the state a call works on:      *)
(*   buff    _write_buff                                                   *)
(*   chan    the bytes on the channel                                      *)
(*   closed  how many times the channel's close() has run                  *)
(*   myfd    _myfd is not None                                             *)
(*   nw      fd.write calls made so far by the current call                *)
(*   err     an exception is propagating                                   *)
(*   groups  (history) the groups completely emitted, in order            *)
(*   auto    (history) flush() calls made from inside write()'s loop       *)
(***************************************************************************)
FdWrite(st, bytes, fail) ==
    IF st.err THEN st
    ELSE IF st.closed > 0 \/ st.nw + 1 = fail
         THEN [st EXCEPT !.nw = @ + 1, !.err = TRUE]
         ELSE [st EXCEPT !.nw = @ + 1, !.chan = @ \o bytes]

(***************************************************************************)
(* google.protobuf's _EncodeVarint(write, value): little-endian base 128,  *)
(* one write() per byte, the high bit set on every byte but the last.      *)
(***************************************************************************)
RECURSIVE encodeVarint(_, _, _)
encodeVarint(st, value, fail) ==
    IF value \div 128 = 0
    THEN FdWrite(st, <<value % 128>>, fail)
    ELSE encodeVarint(FdWrite(st, <<128 + (value % 128)>>, fail),
                      value \div 128, fail)

\* The bytes encodeVarint puts on a working channel.
RECURSIVE VarintBytes(_)
VarintBytes(value) ==
    IF value \div 128 = 0 THEN <<value % 128>>
    ELSE <<128 + (value % 128)>> \o VarintBytes(value \div 128)

(***************************************************************************)
(* Stream.flush (write mode).                                              *)
(***************************************************************************)
\* for obj in self._write_buff: size varint, then the payload.
RECURSIVE FlushObjs(_, _, _)
\* Mutant: the size varint is left out.
FlushObjs_NoSize(st, objs, fail) ==
    IF objs = <<>> \/ st.err THEN st
    ELSE LET obj_str == SerializeToString(Head(objs))
             s2 == FdWrite(st, obj_str, fail)
         IN  FlushObjs(s2, Tail(objs), fail)

FlushObjs(st, objs, fail) ==
    IF objs = <<>> \/ st.err THEN st
    ELSE LET obj_str == SerializeToString(Head(objs))
             s1 == encodeVarint(st, Len(obj_str), fail)
             s2 == FdWrite(s1, obj_str, fail)
         IN  FlushObjs(s2, Tail(objs), fail)

\* Mutant: the buffer is not cleared after the group is written.
flush_KeepBuffer(st, fail) ==
    LET count == Len(st.buff)
    IN  IF st.err \/ count = 0 THEN st
        ELSE LET s1 == encodeVarint(st, count, fail)
                 s2 == FlushObjs(s1, st.buff, fail)
             IN  IF s2.err THEN s2
                 ELSE [s2 EXCEPT !.groups = Append(@, st.buff)]

\* Mutant: no early return on an empty buffer.
flush_NoEmptyCheck(st, fail) ==
    LET count == Len(st.buff)
    IN  IF st.err THEN st
        ELSE LET s1 == encodeVarint(st, count, fail)
                 s2 == FlushObjs(s1, st.buff, fail)
             IN  IF s2.err THEN s2
                 ELSE [s2 EXCEPT !.buff = <<>>,
                                 !.groups = Append(@, st.buff)]

\* Mutant: the buffer is emptied before the group is written.
flush_ClearFirst(st, fail) ==
    LET count == Len(st.buff)
    IN  IF st.err \/ count = 0 THEN st
        ELSE LET s1 == encodeVarint(st, count, fail)
                 s2 == FlushObjs(s1, st.buff, fail)
             IN  IF s2.err THEN [s2 EXCEPT !.buff = <<>>]
                 ELSE [s2 EXCEPT !.buff = <<>>,
                                 !.groups = Append(@, st.buff)]
\* Mutant: the count varint is written before the test for an empty buffer.
flush_CountBeforeCheck(st, fail) ==
    LET count == Len(st.buff)
    IN  IF st.err THEN st
        ELSE LET s1 == encodeVarint(st, count, fail)
                 s2 == FlushObjs(s1, st.buff, fail)
             IN  IF count = 0 \/ s2.err THEN s2
                 ELSE [s2 EXCEPT !.buff = <<>>,
                                 !.groups = Append(@, st.buff)]
flush(st, fail) ==
    LET count == Len(st.buff)
    IN  IF st.err \/ count = 0 THEN st
        ELSE LET s1 == encodeVarint(st, count, fail)
                 s2 == FlushObjs(s1, st.buff, fail)
             IN  IF s2.err THEN s2
                 ELSE [s2 EXCEPT !.buff = <<>>,
                                 !.groups = Append(@, st.buff)]


(***************************************************************************)
(* Stream.write.                                                           *)
(***************************************************************************)
VARIABLES
    buffer_size,   \* _buffer_size, fixed at construction
    write_buff,    \* _write_buff
    chan,          \* the bytes written to the channel _fd
    closed,        \* how many times the channel's close() has run
    myfd,          \* _myfd is not None
    byPath,        \* the handle was constructed from a path (it owns _fd)
    header,        \* kwargs['header']: the literal header the caller configured
    scope,         \* "bare": used without `with`; "in" / "left": the with-scope
    groups,        \* (history) groups completely emitted by flush
    auto,          \* (history) flush() calls made from write()'s loop
    calls,         \* (history) the argument tuple of every write() call
    lastop,        \* (history) the last call made and whether it raised
    pre,           \* (history) the handle's state before the last call
    nops,          \* number of calls made on the write handle
    faults         \* number of channel failures injected so far

wvars == <<buffer_size, write_buff, chan, closed, myfd, byPath, header, scope,
           groups, auto, calls, lastop, pre, nops, faults>>

\* for idx, obj in enumerate(pb2_obj): flush at a full buffer, then append.
RECURSIVE WriteLoop(_, _, _, _, _)
\* Mutant: the buffer is flushed one message late.
WriteLoop_OffByOne(st, objs, idx, base, fail) ==
    IF objs = <<>> \/ st.err THEN st
    ELSE LET full == /\ buffer_size > 0
                     /\ (idx + base) # 0
                     /\ (idx + base) % (buffer_size + 1) = 0
             s1 == IF full THEN flush([st EXCEPT !.auto = @ + 1], fail)
                   ELSE st
             s2 == IF s1.err THEN s1
                   ELSE [s1 EXCEPT !.buff = Append(@, Head(objs))]
         IN  WriteLoop(s2, Tail(objs), idx + 1, base, fail)

\* Mutant: the buffer is flushed one message before it is full.
WriteLoop_FlushEarly(st, objs, idx, base, fail) ==
    IF objs = <<>> \/ st.err THEN st
    ELSE LET full == /\ buffer_size > 0
                     /\ (idx + base) # 0
                     /\ (idx + base + 1) % buffer_size = 0
             s1 == IF full THEN flush([st EXCEPT !.auto = @ + 1], fail)
                   ELSE st
             s2 == IF s1.err THEN s1
                   ELSE [s1 EXCEPT !.buff = Append(@, Head(objs))]
         IN  WriteLoop(s2, Tail(objs), idx + 1, base, fail)

\* Mutant: the messages already in the buffer are not counted.
WriteLoop_IgnoreBase(st, objs, idx, base, fail) ==
    IF objs = <<>> \/ st.err THEN st
    ELSE LET full == /\ buffer_size > 0
                     /\ idx # 0
                     /\ idx % buffer_size = 0
             s1 == IF full THEN flush([st EXCEPT !.auto = @ + 1], fail)
                   ELSE st
             s2 == IF s1.err THEN s1
                   ELSE [s1 EXCEPT !.buff = Append(@, Head(objs))]
         IN  WriteLoop(s2, Tail(objs), idx + 1, base, fail)

WriteLoop(st, objs, idx, base, fail) ==
    IF objs = <<>> \/ st.err THEN st
    ELSE LET full == /\ buffer_size > 0
                     /\ (idx + base) # 0
                     /\ (idx + base) % buffer_size = 0
             s1 == IF full THEN flush([st EXCEPT !.auto = @ + 1], fail)
                   ELSE st
             s2 == IF s1.err THEN s1
                   ELSE [s1 EXCEPT !.buff = Append(@, Head(objs))]
         IN  WriteLoop(s2, Tail(objs), idx + 1, base, fail)

\* Mutant: no flush at the end of the call when buffer_size is 0.
write_NoFinalFlush(st, pb2_obj, fail) ==
    LET base == Len(st.buff)
    IN  WriteLoop(st, pb2_obj, 0, base, fail)

\* Mutant: a negative buffer_size is taken for 0.
write_FlushNonPositive(st, pb2_obj, fail) ==
    LET base == Len(st.buff)
        s1 == WriteLoop(st, pb2_obj, 0, base, fail)
    IN  IF buffer_size <= 0 THEN flush(s1, fail) ELSE s1

write(st, pb2_obj, fail) ==
    LET base == Len(st.buff)
        s1 == WriteLoop(st, pb2_obj, 0, base, fail)
    IN  IF buffer_size = 0 THEN flush(s1, fail) ELSE s1

(***************************************************************************)
(* Stream.close: flush, then close the channel if the handle owns it.      *)
(***************************************************************************)
\* Mutant: close() does not flush.
close_NoFlush(st, fail) ==
    IF st.myfd THEN [st EXCEPT !.closed = @ + 1, !.myfd = FALSE] ELSE st

\* Mutant: close() closes _fd instead of _myfd.
close_AnyFd(st, fail) ==
    LET s1 == flush(st, fail)
    IN  IF s1.err THEN s1
        ELSE IF s1.closed = 0
             THEN [s1 EXCEPT !.closed = @ + 1, !.myfd = FALSE]
             ELSE s1

close(st, fail) ==
    LET s1 == flush(st, fail)
    IN  IF s1.err THEN s1
        ELSE IF s1.myfd
             THEN [s1 EXCEPT !.closed = @ + 1, !.myfd = FALSE]
             ELSE s1

(***************************************************************************)
(* The write handle's calls as actions.                                    *)
(***************************************************************************)
NoCall == [op |-> "init", raised |-> FALSE]

St == [buff |-> write_buff, chan |-> chan, closed |-> closed, myfd |-> myfd,
       nw |-> 0, err |-> FALSE, groups |-> groups, auto |-> auto]

\* What the history keeps of the state a call starts from.
Snapshot == [buff |-> write_buff, chan |-> chan, groups |-> groups,
             auto |-> auto, closed |-> closed, lastop |-> lastop]

Commit(s, op, fail) ==
    /\ fail > 0 => faults < MaxFaults /\ s.err /\ s.nw = fail
    /\ faults' = IF fail > 0 THEN faults + 1 ELSE faults
    /\ write_buff' = s.buff
    /\ chan' = s.chan
    /\ closed' = s.closed
    /\ myfd' = s.myfd
    /\ groups' = s.groups
    /\ auto' = s.auto
    /\ lastop' = [op |-> op, raised |-> s.err]
    /\ pre' = Snapshot
    /\ nops' = nops + 1
    /\ UNCHANGED <<buffer_size, byPath, header>>

\* Stream.__init__ in a write mode: buffer_size from kwargs, an empty buffer,
\* _myfd set only when the handle opened the file itself.  Any other keyword
\* argument stays in kwargs and is not looked at.
InitWriter ==
    /\ buffer_size \in -1..MaxBufferSize
    /\ write_buff = <<>>
    /\ chan = <<>>
    /\ closed = 0
    /\ byPath \in BOOLEAN
    /\ myfd = byPath
    /\ groups = <<>>
    /\ auto = 0
    /\ calls = <<>>
    /\ lastop = NoCall
    /\ pre = Snapshot
    /\ nops = 0
    /\ faults = 0

\* Inside a with-block an exception leaves the block: only __exit__ follows.
MayCall(maxCalls) == nops < maxCalls /\ ~(scope = "in" /\ lastop.raised)

Passed == Len(Flatten(calls))

WriteWith(fail, maxCalls, maxMsgs) ==
    /\ MayCall(maxCalls)
    /\ Passed <= maxMsgs
    /\ \E objs \in Tuples(maxMsgs - Passed) :
          /\ Commit(write(St, objs, fail), "write", fail)
          /\ calls' = Append(calls, objs)
    /\ UNCHANGED scope

FlushWith(fail, maxCalls) ==
    /\ MayCall(maxCalls)
    /\ Commit(flush(St, fail), "flush", fail)
    /\ UNCHANGED <<calls, scope>>

CloseWith(fail, maxCalls) ==
    /\ MayCall(maxCalls)
    /\ scope # "in"
    /\ Commit(close(St, fail), "close", fail)
    /\ UNCHANGED <<calls, scope>>

\* Stream.__exit__: runs when the with-block is left, normally or by an
\* exception, and calls close().
ExitWith(fail) ==
    /\ scope = "in"
    /\ Commit(close(St, fail), "exit", fail)
    /\ scope' = "left"
    /\ UNCHANGED calls

Write == WriteWith(0, MaxCalls, MaxMsgs)
Flush == FlushWith(0, MaxCalls)
Close == CloseWith(0, MaxCalls)

(***************************************************************************)
(* The read handle: Stream.__next__ over the bytes of a channel.           *)
(***************************************************************************)
VARIABLES
    phase,         \* "write": the write handle is in use; "read": a read handle
    rfd,           \* the bytes of the channel the read handle reads
    rpos,          \* offset of the next unread byte of rfd
    count,         \* _count: messages left in the current group
    gflag,         \* _gflag
    group_delim,   \* _group_delim
    yielded,       \* (history) what __next__ has returned, in order
    rres,          \* (history) how the last __next__ call ended
    nextra,        \* __next__ calls made after the first stop or error
    rn,            \* (history) number of __next__ calls made
    rpre,          \* (history) the read handle's state before the last call
    rfirst         \* (history) how the first __next__ call that ended, ended

rvars == <<phase, rfd, rpos, count, gflag, group_delim, yielded, rres, nextra,
           rn, rpre, rfirst>>

Min(a, b) == IF a < b THEN a ELSE b

\* self._fd.read(n): up to n bytes from offset pos, fewer at the end.
FdRead(fd, pos, n) == SubSeq(fd, pos + 1, Min(pos + n, Len(fd)))

RECURSIVE Pow2(_)
Pow2(n) == IF n = 0 THEN 1 ELSE 2 * Pow2(n - 1)

(***************************************************************************)
(* google.protobuf's _DecodeVarint(buffer, pos): 7 value bits per byte,    *)
(* least significant group first, up to the first byte without the high    *)
(* bit; ten bytes with the high bit are refused.  The result is masked to  *)
(* 64 bits in the code; here every value of 2^28 or more is represented by *)
(* 2^28, which is larger than any count or size a channel of the model can *)
(* satisfy, so that the arithmetic stays within the checker's integers.    *)
(***************************************************************************)
ValueCap == Pow2(28)

\* result | ((b & 0x7f) << shift)
ShiftIn(result, b, shift) ==
    IF b % 128 = 0 THEN result
    ELSE IF shift >= 28 \/ result >= ValueCap THEN ValueCap
    ELSE result + (b % 128) * Pow2(shift)

RECURSIVE DecodeLoop(_, _, _, _)
\* Mutant: every byte is taken to carry 8 value bits.
DecodeLoop_Shift8(buffer, pos, result, shift) ==
    LET b == buffer[pos + 1]
        res == ShiftIn(result, b, shift)
    IN  IF b \div 128 = 0 THEN [val |-> res, pos |-> pos + 1, err |-> FALSE]
        ELSE IF shift + 8 >= 64 THEN [val |-> 0, pos |-> pos + 1, err |-> TRUE]
        ELSE DecodeLoop(buffer, pos + 1, res, shift + 8)

DecodeLoop(buffer, pos, result, shift) ==
    LET b == buffer[pos + 1]
        res == ShiftIn(result, b, shift)
    IN  IF b \div 128 = 0 THEN [val |-> res, pos |-> pos + 1, err |-> FALSE]
        ELSE IF shift + 7 >= 64 THEN [val |-> 0, pos |-> pos + 1, err |-> TRUE]
        ELSE DecodeLoop(buffer, pos + 1, res, shift + 7)

decodeVarint(buffer, pos) == DecodeLoop(buffer, pos, 0, 0)

(***************************************************************************)
(* Stream._read_varint: 0 at the end of the channel, EOFError when the     *)
(* channel ends inside a varint.  Returns the value, the new offset and    *)
(* whether it raised.                                                      *)
(***************************************************************************)
RECURSIVE ReadVarintLoop(_, _, _)
\* Mutant: the end of the channel inside a varint is taken for the value 0.
ReadVarintLoop_ZeroAtEof(fd, pos, buff) ==
    IF buff[Len(buff)] \div 128 = 1
    THEN LET new_byte == FdRead(fd, pos, 1)
         IN  IF new_byte = <<>> THEN [val |-> 0, pos |-> pos, err |-> FALSE]
             ELSE ReadVarintLoop(fd, pos + 1, buff \o new_byte)
    ELSE LET d == decodeVarint(buff, 0)
         IN  [val |-> d.val, pos |-> pos, err |-> d.err]

ReadVarintLoop(fd, pos, buff) ==
    IF buff[Len(buff)] \div 128 = 1
    THEN LET new_byte == FdRead(fd, pos, 1)
         IN  IF new_byte = <<>> THEN [val |-> 0, pos |-> pos, err |-> TRUE]
             ELSE ReadVarintLoop(fd, pos + 1, buff \o new_byte)
    ELSE LET d == decodeVarint(buff, 0)
         IN  [val |-> d.val, pos |-> pos, err |-> d.err]

\* Mutant: the end of the channel where a varint starts raises EOFError.
read_varint_EofRaises(fd, pos) ==
    LET buff == FdRead(fd, pos, 1)
    IN  IF buff = <<>> THEN [val |-> 0, pos |-> pos, err |-> TRUE]
        ELSE ReadVarintLoop(fd, pos + 1, buff)

read_varint(fd, pos) ==
    LET buff == FdRead(fd, pos, 1)
    IN  IF buff = <<>> THEN [val |-> 0, pos |-> pos, err |-> FALSE]
        ELSE ReadVarintLoop(fd, pos + 1, buff)

\* What __next__ returns: a message's bytes, or a delimiter instance.
Msg(bytes) == [kind |-> "msg", val |-> bytes]
Delimiter == [kind |-> "delim", val |-> <<>>]

(***************************************************************************)
(* Stream.__next__.  r holds pos, count, gflag; the result adds            *)
(*   res   "msg" | "delim": an item is returned; "stop": StopIteration;    *)
(*         "eof": EOFError; "assert": the assertion failed                 *)
(*   item  the item returned                                               *)
(***************************************************************************)
NextOutcome(pos, cnt, gf, res, item) ==
    [pos |-> pos, count |-> cnt, gflag |-> gf, res |-> res, item |-> item]

\* size = self._read_varint() and what follows it.
\* Mutant: a short read is returned as a message.
NextObject_NoShortCheck(fd, pos, cnt, gf) ==
    LET size == read_varint(fd, pos)
        val == FdRead(fd, size.pos, size.val)
    IN  IF size.err THEN NextOutcome(size.pos, cnt, gf, "eof", Delimiter)
        ELSE IF size.val = 0 THEN NextOutcome(size.pos, cnt, gf, "eof", Delimiter)
        ELSE NextOutcome(size.pos + Len(val), cnt, gf, "msg", Msg(val))

\* Mutant: a size of 0 is read as an empty message.
NextObject_ZeroSizeEmpty(fd, pos, cnt, gf) ==
    LET size == read_varint(fd, pos)
        val == FdRead(fd, size.pos, size.val)
    IN  IF size.err THEN NextOutcome(size.pos, cnt, gf, "eof", Delimiter)
        ELSE IF Len(val) < size.val
             THEN NextOutcome(size.pos + Len(val), cnt, gf, "eof", Delimiter)
        ELSE NextOutcome(size.pos + Len(val), cnt, gf, "msg", Msg(val))
NextObject(fd, pos, cnt, gf) ==
    LET size == read_varint(fd, pos)
        val == FdRead(fd, size.pos, size.val)
    IN  IF size.err THEN NextOutcome(size.pos, cnt, gf, "eof", Delimiter)
        ELSE IF size.val = 0 THEN NextOutcome(size.pos, cnt, gf, "eof", Delimiter)
        ELSE IF Len(val) < size.val
             THEN NextOutcome(size.pos + Len(val), cnt, gf, "eof", Delimiter)
        ELSE NextOutcome(size.pos + Len(val), cnt, gf, "msg", Msg(val))

\* if self._count != 0: the delimiter, or the next object of the group.
\* Mutant: the group flag is set after every message.
NextInGroup_FlagEach(fd, pos, cnt, gf, gd) ==
    IF gf
    THEN IF ~gd THEN NextOutcome(pos, cnt, gf, "assert", Delimiter)
         ELSE NextOutcome(pos, cnt, FALSE, "delim", Delimiter)
    ELSE LET cnt1 == cnt - 1
             gf1 == IF gd THEN TRUE ELSE gf
         IN  NextObject(fd, pos, cnt1, gf1)

\* Mutant: the group flag is set at the end of a group whatever _group_delim.
NextInGroup_FlagAlways(fd, pos, cnt, gf, gd) ==
    IF gf
    THEN IF ~gd THEN NextOutcome(pos, cnt, gf, "assert", Delimiter)
         ELSE NextOutcome(pos, cnt, FALSE, "delim", Delimiter)
    ELSE LET cnt1 == cnt - 1
             gf1 == IF cnt1 = 0 THEN TRUE ELSE gf
         IN  NextObject(fd, pos, cnt1, gf1)
NextInGroup(fd, pos, cnt, gf, gd) ==
    IF gf
    THEN IF ~gd THEN NextOutcome(pos, cnt, gf, "assert", Delimiter)
         ELSE NextOutcome(pos, cnt, FALSE, "delim", Delimiter)
    ELSE LET cnt1 == cnt - 1
             gf1 == IF gd /\ cnt1 = 0 THEN TRUE ELSE gf
         IN  NextObject(fd, pos, cnt1, gf1)

\* Mutant: the test `if self._count != 0` is left out.
next_NoZeroCheck(fd, r, gd) ==
    LET c == IF r.count = 0 THEN read_varint(fd, r.pos)
             ELSE [val |-> r.count, pos |-> r.pos, err |-> FALSE]
    IN  IF c.err THEN NextOutcome(c.pos, r.count, r.gflag, "eof", Delimiter)
        ELSE NextInGroup(fd, c.pos, c.val, r.gflag, gd)
next(fd, r, gd) ==
    LET c == IF r.count = 0 THEN read_varint(fd, r.pos)
             ELSE [val |-> r.count, pos |-> r.pos, err |-> FALSE]
    IN  IF c.err THEN NextOutcome(c.pos, r.count, r.gflag, "eof", Delimiter)
        ELSE IF c.val # 0 THEN NextInGroup(fd, c.pos, c.val, r.gflag, gd)
        ELSE NextOutcome(c.pos, 0, r.gflag, "stop", Delimiter)

\* What the history keeps of the state a __next__ call starts from.
ReadSnapshot(pos, cnt, gf, items) ==
    [pos |-> pos, count |-> cnt, gflag |-> gf, yielded |-> items]

InitReader ==
    /\ phase = "write"
    /\ rfd = <<>>
    /\ rpos = 0
    /\ count = 0
    /\ gflag = FALSE
    /\ group_delim = FALSE
    /\ yielded = <<>>
    /\ rres = "none"
    /\ nextra = 0
    /\ rn = 0
    /\ rpre = ReadSnapshot(0, 0, FALSE, <<>>)
    /\ rfirst = "none"

(***************************************************************************)
(* The read handle on a channel whose read() is a coroutine:               *)
(* Stream.__anext__ and Stream._async_read_varint.  A second read handle   *)
(* goes over the same bytes as the first, from offset 0.                   *)
(***************************************************************************)
VARIABLES
    apos,          \* offset of the next unread byte of the async channel
    acount,        \* _count of the async handle
    agflag,        \* _gflag of the async handle
    ayielded,      \* (history) what __anext__ has returned, in order
    ares,          \* (history) how the last __anext__ call ended
    apre           \* (history) the async handle's state before the last call

avars == <<apos, acount, agflag, ayielded, ares, apre>>

RECURSIVE AsyncReadVarintLoop(_, _, _)
AsyncReadVarintLoop(fd, pos, buff) ==
    IF buff[Len(buff)] \div 128 = 1
    THEN LET new_byte == FdRead(fd, pos, 1)
         IN  IF new_byte = <<>> THEN [val |-> 0, pos |-> pos, err |-> TRUE]
             ELSE AsyncReadVarintLoop(fd, pos + 1, buff \o new_byte)
    ELSE LET d == decodeVarint(buff, 0)
         IN  [val |-> d.val, pos |-> pos, err |-> d.err]

async_read_varint(fd, pos) ==
    LET buff == FdRead(fd, pos, 1)
    IN  IF buff = <<>> THEN [val |-> 0, pos |-> pos, err |-> FALSE]
        ELSE AsyncReadVarintLoop(fd, pos + 1, buff)

\* size = await self._async_read_varint(); return await self._fd.read(size):
\* what read() returns is returned as it is.
ANextObject(fd, pos, cnt, gf) ==
    LET size == async_read_varint(fd, pos)
        val == FdRead(fd, size.pos, size.val)
    IN  IF size.err THEN NextOutcome(size.pos, cnt, gf, "eof", Delimiter)
        ELSE IF size.val = 0 THEN NextOutcome(size.pos, cnt, gf, "eof", Delimiter)
        ELSE NextOutcome(size.pos + Len(val), cnt, gf, "msg", Msg(val))

ANextInGroup(fd, pos, cnt, gf, gd) ==
    IF gf
    THEN IF ~gd THEN NextOutcome(pos, cnt, gf, "assert", Delimiter)
         ELSE NextOutcome(pos, cnt, FALSE, "delim", Delimiter)
    ELSE LET cnt1 == cnt - 1
             gf1 == IF gd /\ cnt1 = 0 THEN TRUE ELSE gf
         IN  ANextObject(fd, pos, cnt1, gf1)

\* "stop" stands for StopAsyncIteration here.
anext(fd, r, gd) ==
    LET c == IF r.count = 0 THEN async_read_varint(fd, r.pos)
             ELSE [val |-> r.count, pos |-> r.pos, err |-> FALSE]
    IN  IF c.err THEN NextOutcome(c.pos, r.count, r.gflag, "eof", Delimiter)
        ELSE IF c.val # 0 THEN ANextInGroup(fd, c.pos, c.val, r.gflag, gd)
        ELSE NextOutcome(c.pos, 0, r.gflag, "stop", Delimiter)

InitAsync ==
    /\ apos = 0
    /\ acount = 0
    /\ agflag = FALSE
    /\ ayielded = <<>>
    /\ ares = "none"
    /\ apre = ReadSnapshot(0, 0, FALSE, <<>>)

(***************************************************************************)
(* Stream._read_varint and Stream._async_read_varint called on their own,  *)
(* at offset 0 of a channel.                                               *)
(***************************************************************************)
VARIABLES
    vres           \* (history) who read the varint, and what came back

vvars == <<vres>>

VarintResult(by, r) == [by |-> by, val |-> r.val, pos |-> r.pos, err |-> r.err]

InitVarint == vres = VarintResult("none", [val |-> 0, pos |-> 0, err |-> FALSE])

(***************************************************************************)
(* The earlier Stream class of stream.py, whose iterator loads the whole   *)
(* channel and slices it: Stream._create_iterator, a generator.  A handle  *)
(* of that class goes over the same bytes as the read handle, from         *)
(* offset 0.                                                               *)
(***************************************************************************)
VARIABLES
    mpos,          \* pos of the generator
    mleft,         \* iterations the generator's for-loop has still to make
    myielded,      \* (history) what the generator has yielded, in order
    mres           \* (history) how the last next() on the generator ended

mvars == <<mpos, mleft, myielded, mres>>
vars == <<wvars, rvars, avars, vvars, mvars>>

\* _DecodeVarint(buff, pos) on the loaded bytes: indexing past their end
\* raises IndexError.
RECURSIVE IndexedDecodeLoop(_, _, _, _)
IndexedDecodeLoop(buffer, pos, result, shift) ==
    IF pos >= Len(buffer) THEN [val |-> 0, pos |-> pos, err |-> TRUE]
    ELSE LET b == buffer[pos + 1]
             res == ShiftIn(result, b, shift)
         IN  IF b \div 128 = 0
             THEN [val |-> res, pos |-> pos + 1, err |-> FALSE]
             ELSE IF shift + 7 >= 64
                  THEN [val |-> 0, pos |-> pos + 1, err |-> TRUE]
                  ELSE IndexedDecodeLoop(buffer, pos + 1, res, shift + 7)

varintDecoder(buffer, pos) == IndexedDecodeLoop(buffer, pos, 0, 0)

IterOutcome(pos, left, res, item) ==
    [pos |-> pos, left |-> left, res |-> res, item |-> item]

(***************************************************************************)
(* One next() on the generator: it runs up to its next yield.              *)
(*   res  "msg": a slice is yielded; "stop": the generator returns;        *)
(*        "fail": IndexError, _DecodeError or AssertionError               *)
(***************************************************************************)
RECURSIVE create_iterator(_, _, _)
create_iterator(buff, pos, left) ==
    IF left > 0
    THEN \* size, pos = varintDecoder(buff, pos); yield buff[pos:pos+size]
         LET size == varintDecoder(buff, pos)
         IN  IF size.err THEN IterOutcome(size.pos, left, "fail", Delimiter)
             ELSE IterOutcome(size.pos + size.val, left - 1, "msg",
                              Msg(FdRead(buff, size.pos, size.val)))
    ELSE \* while pos != len(buff): assert pos < len(buff); count, pos = ...
         IF pos = Len(buff) THEN IterOutcome(pos, 0, "stop", Delimiter)
         ELSE IF pos > Len(buff) THEN IterOutcome(pos, 0, "fail", Delimiter)
         ELSE LET cnt == varintDecoder(buff, pos)
              IN  IF cnt.err THEN IterOutcome(cnt.pos, 0, "fail", Delimiter)
                  ELSE create_iterator(buff, cnt.pos, cnt.val)

InitIter ==
    /\ mpos = 0
    /\ mleft = 0
    /\ myielded = <<>>
    /\ mres = "none"

\* Stream.__init__ in mode 'rb' on the bytes the write handle left, once a
\* close() of the write handle has returned.  The write handle is not used
\* any more: of its state only what it wrote is kept (buffer_size, calls,
\* groups, chan).
ReadOpen ==
    /\ phase = "write"
    /\ lastop.op = "close" /\ ~lastop.raised
    /\ phase' = "read"
    /\ rfd' = chan
    /\ group_delim' \in BOOLEAN
    /\ rpos' = 0
    /\ count' = 0
    /\ gflag' = FALSE
    /\ UNCHANGED <<yielded, rres, nextra, rn, rpre, rfirst>>
    /\ UNCHANGED <<buffer_size, calls, groups, chan, write_buff, scope, faults,
                   header>>
    /\ byPath' = FALSE /\ myfd' = FALSE /\ closed' = 0 /\ auto' = 0
    /\ lastop' = NoCall /\ nops' = 0
    /\ pre' = [buff |-> write_buff, chan |-> chan, groups |-> groups,
               auto |-> 0, closed |-> 0, lastop |-> NoCall]
    /\ UNCHANGED <<avars, vvars, mvars>>

Ended == rres \in {"stop", "eof", "assert"}

Next ==
    /\ phase = "read"
    /\ Ended => nextra < MaxExtra
    /\ LET o == next(rfd, [pos |-> rpos, count |-> count, gflag |-> gflag],
                     group_delim)
       IN  /\ rpos' = o.pos
           /\ count' = o.count
           /\ gflag' = o.gflag
           /\ rres' = o.res
           /\ yielded' = IF o.res \in {"msg", "delim"}
                         THEN Append(yielded, o.item) ELSE yielded
           /\ rfirst' = IF rfirst = "none" /\ o.res \in {"stop", "eof", "assert"}
                        THEN o.res ELSE rfirst
    /\ nextra' = IF Ended THEN nextra + 1 ELSE nextra
    /\ rn' = rn + 1
    /\ rpre' = ReadSnapshot(rpos, count, gflag, yielded)
    /\ UNCHANGED <<phase, rfd, group_delim>>
    /\ UNCHANGED <<wvars, avars, vvars, mvars>>

(***************************************************************************)
(* The specification: a write handle is used and closed, then a read       *)
(* handle reads what it wrote.                                             *)
(***************************************************************************)
Init ==
    /\ InitWriter /\ scope = "bare" /\ header = <<>>
    /\ InitReader /\ InitAsync /\ InitVarint /\ InitIter

Step ==
    \/ phase = "write" /\ Write /\ UNCHANGED <<rvars, avars, vvars, mvars>>
    \/ phase = "write" /\ Flush /\ UNCHANGED <<rvars, avars, vvars, mvars>>
    \/ phase = "write" /\ Close /\ UNCHANGED <<rvars, avars, vvars, mvars>>
    \/ ReadOpen
    \/ Next

Spec == Init /\ [][Step]_vars

(***************************************************************************)
(* The specification of the write handle on a channel whose writes may     *)
(* raise, used bare or inside a with-block.                                *)
(***************************************************************************)
WriteOk == WriteWith(0, MaxCallsFail, MaxMsgsFail)
FlushOk == FlushWith(0, MaxCallsFail)
CloseOk == CloseWith(0, MaxCallsFail)
Exit == ExitWith(0)
WriteFail == \E fail \in 1..MaxFail : WriteWith(fail, MaxCallsFail, MaxMsgsFail)
FlushFail == \E fail \in 1..MaxFail : FlushWith(fail, MaxCallsFail)
CloseFail == \E fail \in 1..MaxFail : CloseWith(fail, MaxCallsFail)
ExitFail == \E fail \in 1..MaxFail : ExitWith(fail)

InitFail ==
    /\ InitWriter /\ scope \in {"bare", "in"} /\ header = <<>>
    /\ InitReader /\ InitAsync /\ InitVarint /\ InitIter

StepFail ==
    \/ WriteOk /\ UNCHANGED <<rvars, avars, vvars, mvars>>
    \/ FlushOk /\ UNCHANGED <<rvars, avars, vvars, mvars>>
    \/ CloseOk /\ UNCHANGED <<rvars, avars, vvars, mvars>>
    \/ Exit /\ UNCHANGED <<rvars, avars, vvars, mvars>>
    \/ WriteFail /\ UNCHANGED <<rvars, avars, vvars, mvars>>
    \/ FlushFail /\ UNCHANGED <<rvars, avars, vvars, mvars>>
    \/ CloseFail /\ UNCHANGED <<rvars, avars, vvars, mvars>>
    \/ ExitFail /\ UNCHANGED <<rvars, avars, vvars, mvars>>

SpecFail == InitFail /\ [][StepFail]_vars

(***************************************************************************)
(* The wire format, for stating the properties:                            *)
(*   group := count:varint (size:varint payload:byte[size])^count          *)
(***************************************************************************)
RECURSIVE EncodeObjs(_)
EncodeObjs(objs) ==
    IF objs = <<>> THEN <<>>
    ELSE VarintBytes(Len(Head(objs))) \o Head(objs) \o EncodeObjs(Tail(objs))

EncodeGroup(g) == VarintBytes(Len(g)) \o EncodeObjs(g)

RECURSIVE EncodeGroups(_)
EncodeGroups(gs) ==
    IF gs = <<>> THEN <<>> ELSE EncodeGroup(Head(gs)) \o EncodeGroups(Tail(gs))

(***************************************************************************)
(* The specification of the read handles on arbitrary channels: a byte     *)
(* stream, well-formed or not, is read to its end with __next__, then the  *)
(* same bytes are read with __anext__ through a coroutine channel.         *)
(***************************************************************************)
\* The bytes of the arbitrary streams: sizes and counts 0, 1, 2, a payload
\* byte, a byte with the continuation bit.
StreamBytes == {0, 1, 2, 65, 128}

\* All byte strings over B of length at most n.
RECURSIVE ByteStrings(_, _)
ByteStrings(B, n) ==
    IF n = 0 THEN {<<>>}
    ELSE LET S == ByteStrings(B, n - 1)
         IN  S \cup {Append(t, b) : t \in {u \in S : Len(u) = n - 1}, b \in B}

\* Two well-formed streams; every prefix of them is read too.
SampleStreams == { EncodeGroups(<< <<MsgA, MsgA>>, <<MsgA>> >>),
                   EncodeGroups(<< <<MsgLong>>, <<MsgA>> >>) }

ReadStreams ==
    ByteStrings(StreamBytes, MaxStreamLen)
        \cup UNION {{SubSeq(w, 1, n) : n \in 0..Len(w)} : w \in SampleStreams}

\* The write handle's variables when no write handle is in use.
NoWriter ==
    /\ InitWriter /\ buffer_size = 0 /\ byPath = FALSE
    /\ scope = "bare" /\ header = <<>>

\* Stream.__init__ in mode 'rb', on a channel holding the bytes fd.
InitReadHandle(fd) ==
    /\ rfd = fd
    /\ group_delim \in BOOLEAN
    /\ rpos = 0
    /\ count = 0
    /\ gflag = FALSE
    /\ yielded = <<>>
    /\ rres = "none"
    /\ nextra = 0
    /\ rn = 0
    /\ rpre = ReadSnapshot(0, 0, FALSE, <<>>)
    /\ rfirst = "none"

AEnded == ares \in {"stop", "eof", "assert"}

ANext ==
    /\ phase = "read"
    /\ Ended /\ ~AEnded
    /\ LET o == anext(rfd, [pos |-> apos, count |-> acount, gflag |-> agflag],
                      group_delim)
       IN  /\ apos' = o.pos
           /\ acount' = o.count
           /\ agflag' = o.gflag
           /\ ares' = o.res
           /\ ayielded' = IF o.res \in {"msg", "delim"}
                          THEN Append(ayielded, o.item) ELSE ayielded
    /\ apre' = ReadSnapshot(apos, acount, agflag, ayielded)
    /\ UNCHANGED <<wvars, rvars, vvars, mvars>>

IterEnded == mres \in {"stop", "fail"}

\* next() on the generator of Stream._create_iterator.
IterNext ==
    /\ phase = "read"
    /\ Ended /\ AEnded /\ ~IterEnded
    /\ LET o == create_iterator(rfd, mpos, mleft)
       IN  /\ mpos' = o.pos
           /\ mleft' = o.left
           /\ mres' = o.res
           /\ myielded' = IF o.res = "msg"
                          THEN Append(myielded, o.item) ELSE myielded
    /\ UNCHANGED <<wvars, rvars, avars, vvars>>

InitRead ==
    /\ NoWriter
    /\ phase = "read"
    /\ \E fd \in ReadStreams : InitReadHandle(fd)
    /\ InitAsync /\ InitVarint /\ InitIter

StepRead ==
    \/ Next
    \/ ANext
    \/ IterNext

SpecRead == InitRead /\ [][StepRead]_vars

(***************************************************************************)
(* Cancellation of __anext__.  The coroutine suspends only inside an       *)
(* `await self._fd.read(...)`; a cancellation raises CancelledError at the *)
(* await where it is suspended.  awaits is the number of channel reads of  *)
(* the call that complete before that: the reads of one varint are one     *)
(* read(1) per byte, plus the read that finds the channel exhausted.       *)
(***************************************************************************)
MaxAwaits == 3

AsyncVarintReads(fd, pos) ==
    LET r == async_read_varint(fd, pos)
    IN  (r.pos - pos) + (IF r.err \/ r.pos = pos THEN 1 ELSE 0)

\* size = await self._async_read_varint(); return await self._fd.read(size)
\* cancelled after `awaits` more reads: _count and _gflag are already updated.
CancelObject(fd, pos, cnt, gf, awaits, whole) ==
    LET size == async_read_varint(fd, pos)
        n == AsyncVarintReads(fd, pos)
    IN  IF awaits < n
        THEN NextOutcome(pos + awaits, cnt, gf, "cancel", Delimiter)
        ELSE IF size.err \/ size.val = 0 THEN whole
        ELSE IF awaits = n
             THEN NextOutcome(size.pos, cnt, gf, "cancel", Delimiter)
        ELSE whole

\* __anext__ when a cancellation arrives after `awaits` of its reads: the
\* outcome "cancel" (CancelledError), or the outcome of the whole call when it
\* makes no more reads than that.
canext(fd, r, gd, awaits) ==
    LET whole == anext(fd, r, gd)
        n == IF r.count = 0 THEN AsyncVarintReads(fd, r.pos) ELSE 0
        c == IF r.count = 0 THEN async_read_varint(fd, r.pos)
             ELSE [val |-> r.count, pos |-> r.pos, err |-> FALSE]
    IN  IF awaits < n
        THEN NextOutcome(r.pos + awaits, r.count, r.gflag, "cancel", Delimiter)
        ELSE IF c.err \/ c.val = 0 \/ r.gflag THEN whole
        ELSE LET cnt1 == c.val - 1
                 gf1 == IF gd /\ cnt1 = 0 THEN TRUE ELSE r.gflag
             IN  CancelObject(fd, c.pos, cnt1, gf1, awaits - n, whole)

\* An __anext__ call whose consumer is cancelled while it is suspended.
ACancel ==
    /\ phase = "read"
    /\ Ended /\ ~AEnded /\ ares # "cancel"
    /\ \E awaits \in 0..MaxAwaits :
          LET o == canext(rfd, [pos |-> apos, count |-> acount,
                                gflag |-> agflag], group_delim, awaits)
          IN  /\ o.res = "cancel"
              /\ apos' = o.pos
              /\ acount' = o.count
              /\ agflag' = o.gflag
              /\ ares' = o.res
              /\ ayielded' = ayielded
    /\ apre' = ReadSnapshot(apos, acount, agflag, ayielded)
    /\ UNCHANGED <<wvars, rvars, vvars, mvars>>

\* Resuming a cancelled handle is not supported: no call follows.
StepCancel ==
    \/ Next
    \/ ares # "cancel" /\ ANext
    \/ ACancel

SpecCancel == InitRead /\ [][StepCancel]_vars

(***************************************************************************)
(* The write handle with a caller that changes a message after passing it  *)
(* to write(): write() appends the object itself to _write_buff, and the   *)
(* caller still holds it.  An object being identified with its current     *)
(* serialization, changing a buffered object changes the buffer's entry.   *)
(***************************************************************************)
Mutate ==
    /\ phase = "write"
    /\ \E i \in 1..Len(write_buff) :
          \E m \in Msgs \ {write_buff[i]} :
              write_buff' = [write_buff EXCEPT ![i] = m]
    /\ UNCHANGED <<buffer_size, chan, closed, myfd, byPath, header, scope,
                   groups, auto, calls, lastop, pre, nops, faults>>

StepMutate ==
    \/ WriteOk /\ UNCHANGED <<rvars, avars, vvars, mvars>>
    \/ FlushOk /\ UNCHANGED <<rvars, avars, vvars, mvars>>
    \/ CloseOk /\ UNCHANGED <<rvars, avars, vvars, mvars>>
    \/ Mutate /\ UNCHANGED <<rvars, avars, vvars, mvars>>

SpecMutate == Init /\ [][StepMutate]_vars

(***************************************************************************)
(* The specification of handles configured with a literal header: a write  *)
(* handle opened with header=b'GAM', used, closed and read back; or a read *)
(* handle opened with header=b'GAM' on a channel that starts with those    *)
(* bytes.  __init__ takes the keyword with **kwargs; no method reads it.   *)
(***************************************************************************)
HeaderBytes == <<71, 65, 77>>

InitHeader ==
    /\ header = HeaderBytes
    /\ InitWriter /\ scope = "bare"
    /\ \/ InitReader
       \/ /\ buffer_size = 0 /\ byPath = FALSE
          /\ phase = "read"
          /\ \E fd \in ReadStreams : InitReadHandle(HeaderBytes \o fd)
    /\ InitAsync /\ InitVarint /\ InitIter

SpecHeader == InitHeader /\ [][Step]_vars

(***************************************************************************)
(* The specification of the varint reads: the channel holds the varint of  *)
(* a value followed by some bytes, or a varint that never terminates, and  *)
(* _read_varint or _async_read_varint is called once.                      *)
(***************************************************************************)
Digits == {0, 1, 127}

\* The values with at most n base-128 digits taken from Digits.
RECURSIVE DigitValues(_)
DigitValues(n) ==
    IF n = 0 THEN {0}
    ELSE {d + 128 * v : d \in Digits, v \in DigitValues(n - 1)}

VarintValues == (0..MaxSmall) \cup DigitValues(MaxDigits)

TailBytes == {0, 1, 128, 255}
Tails == ByteStrings(TailBytes, MaxTailLen)

\* One or more bytes that all carry the continuation bit.
Unterminated == ByteStrings({128, 255}, MaxDigits) \ {<<>>}

VarintStreams ==
    {VarintBytes(v) \o t : v \in VarintValues, t \in Tails} \cup Unterminated

ReadVarint ==
    /\ phase = "varint"
    /\ vres.by = "none"
    /\ vres' = VarintResult("sync", read_varint(rfd, rpos))
    /\ UNCHANGED <<wvars, rvars, avars, mvars>>

AsyncReadVarint ==
    /\ phase = "varint"
    /\ vres.by = "none"
    /\ vres' = VarintResult("async", async_read_varint(rfd, rpos))
    /\ UNCHANGED <<wvars, rvars, avars, mvars>>

InitVarintRead ==
    /\ NoWriter
    /\ \E fd \in VarintStreams : InitReadHandle(fd)
    /\ group_delim = FALSE
    /\ phase = "varint"
    /\ InitAsync /\ InitVarint /\ InitIter

StepVarint ==
    \/ ReadVarint
    \/ AsyncReadVarint

SpecVarint == InitVarintRead /\ [][StepVarint]_vars

\* The messages of a group as the items a reader yields.
Items(g) == [i \in 1..Len(g) |-> Msg(g[i])]

\* The items of the groups gs, one delimiter between two consecutive groups.
RECURSIVE Interleave(_)
Interleave(gs) ==
    IF gs = <<>> THEN <<>>
    ELSE IF Tail(gs) = <<>> THEN Items(Head(gs))
    ELSE Items(Head(gs)) \o <<Delimiter>> \o Interleave(Tail(gs))

\* The write() calls that were given at least one message.
NonEmptyCalls == SelectSeq(calls, LAMBDA c : c # <<>>)

NoEmptyMessage ==
    \A i \in 1..Len(calls) : \A j \in 1..Len(calls[i]) : calls[i][j] # <<>>

DelimiterCount == Cardinality({i \in 1..Len(yielded) : yielded[i] = Delimiter})

\* The last call on the write handle was `op` and it returned normally.
Returned(op) == lastop = [op |-> op, raised |-> FALSE]

\* The arguments of the last write() call.
LastArgs == calls[Len(calls)]

(***************************************************************************)
(* C1. Round trip: the messages written through write()/close(), read      *)
(* back with delimiters enabled, come out as the same messages in the same *)
(* order with the same group partition (with buffer_size 0: one group per  *)
(* write() call that was given messages), and the read ends by             *)
(* StopIteration.                                                          *)
(***************************************************************************)
C1_RoundTrip ==
    (phase = "read" /\ group_delim /\ Ended) =>
        /\ rres = "stop"
        /\ Flatten(groups) = Flatten(calls)
        /\ buffer_size = 0 => groups = NonEmptyCalls
        /\ yielded = Interleave(groups)

\* The round trip does hold when no message serializes to the empty string.
C1_RoundTripNonEmpty == NoEmptyMessage => C1_RoundTrip

(***************************************************************************)
(* C2. With buffer_size 0 a write() call given k >= 1 messages emits,      *)
(* before it returns, exactly one group made of that call's messages in    *)
(* argument order, and leaves the buffer empty; three one-message calls    *)
(* give three groups of size 1, read back in the order written.            *)
(***************************************************************************)
C2_ZeroCapacity ==
    /\ (buffer_size = 0 /\ Returned("write") /\ LastArgs # <<>>) =>
          /\ groups = Append(pre.groups, LastArgs)
          /\ chan = pre.chan \o EncodeGroup(LastArgs)
          /\ write_buff = <<>>
    /\ (/\ buffer_size = 0
        /\ Len(calls) = 3
        /\ \A i \in 1..3 : Len(calls[i]) = 1 /\ calls[i][1] # <<>>
        /\ phase = "read" /\ Ended) =>
          /\ rres = "stop"
          /\ groups = calls
          /\ group_delim => yielded = Interleave(calls)
          /\ ~group_delim => yielded = Items(Flatten(calls))

C2_Witness ==
    /\ buffer_size = 0
    /\ calls = << <<MsgA>>, <<MsgLong>>, <<MsgA>> >>
    /\ groups = calls
    /\ write_buff = <<>>
    /\ phase = "read" /\ rres = "stop" /\ group_delim
    /\ yielded = <<Msg(MsgA), Delimiter, Msg(MsgLong), Delimiter, Msg(MsgA)>>

(***************************************************************************)
(* C3. With buffer_size C > 0 and an empty buffer, one write() call of     *)
(* C+1 messages makes exactly one automatic flush, which emits the first C *)
(* messages before the (C+1)-th is buffered; after close() the output is   *)
(* the group of the first C messages, then the group of the last one.      *)
(***************************************************************************)
C3_OneAutoFlush ==
    /\ (/\ buffer_size > 0 /\ pre.buff = <<>>
        /\ Returned("write") /\ Len(LastArgs) = buffer_size + 1) =>
          /\ auto = pre.auto + 1
          /\ groups = Append(pre.groups, SubSeq(LastArgs, 1, buffer_size))
          /\ chan = pre.chan \o EncodeGroup(SubSeq(LastArgs, 1, buffer_size))
          /\ write_buff = <<LastArgs[buffer_size + 1]>>
    /\ (/\ buffer_size > 0
        /\ Len(calls) = 1 /\ Len(calls[1]) = buffer_size + 1
        /\ Returned("close")) =>
          /\ auto = 1
          /\ groups = << SubSeq(calls[1], 1, buffer_size),
                         <<calls[1][buffer_size + 1]>> >>
          /\ chan = EncodeGroup(SubSeq(calls[1], 1, buffer_size))
                       \o EncodeGroup(<<calls[1][buffer_size + 1]>>)

C3_Witness ==
    /\ buffer_size = 2
    /\ calls = << <<MsgA, MsgLong, MsgA>> >>
    /\ auto = 1
    /\ Returned("close")
    /\ groups = << <<MsgA, MsgLong>>, <<MsgA>> >>

(***************************************************************************)
(* C4. With a negative buffer_size no write() call puts a byte on the      *)
(* channel, however many messages are buffered; bytes are emitted only by  *)
(* flush() or close(), and then the whole buffer goes out as one group.    *)
(***************************************************************************)
C4_NegativeCapacity ==
    buffer_size < 0 =>
        /\ lastop.op = "write" =>
              /\ ~lastop.raised
              /\ chan = pre.chan /\ groups = pre.groups
              /\ write_buff = pre.buff \o LastArgs
        /\ chan # pre.chan =>
              /\ Returned("flush") \/ Returned("close")
              /\ pre.buff # <<>>
              /\ chan = pre.chan \o EncodeGroup(pre.buff)
              /\ groups = Append(pre.groups, pre.buff)
              /\ write_buff = <<>>

C4_Witness ==
    /\ buffer_size < 0
    /\ Len(calls) = 2 /\ Len(Flatten(calls)) = 3
    /\ Returned("flush")
    /\ pre.buff = Flatten(calls) /\ pre.chan = <<>>
    /\ groups = <<Flatten(calls)>>
    /\ chan = EncodeGroup(Flatten(calls))

(***************************************************************************)
(* C5. flush() on a buffer of n >= 1 messages emits exactly one group: the *)
(* varint n, then each message in buffer order as its size varint and its  *)
(* bytes; afterwards the buffer is empty.                                  *)
(***************************************************************************)
C5_FlushEmitsGroup ==
    (Returned("flush") /\ pre.buff # <<>>) =>
        /\ chan = pre.chan \o EncodeGroup(pre.buff)
        /\ groups = Append(pre.groups, pre.buff)
        /\ write_buff = <<>>

C5_Witness ==
    /\ Returned("flush")
    /\ pre.buff = <<MsgLong, MsgA>>
    /\ chan = <<2, 128, 1>> \o MsgLong \o <<1, 65>>
    /\ write_buff = <<>>

(***************************************************************************)
(* C6. flush() on an empty buffer writes nothing: a flush() right after a  *)
(* flush(), with no write() in between, leaves the channel as it was.      *)
(***************************************************************************)
C6_FlushIdempotent ==
    /\ (Returned("flush") /\ pre.buff = <<>>) =>
          /\ chan = pre.chan /\ groups = pre.groups /\ write_buff = <<>>
    /\ (Returned("flush") /\ pre.lastop = [op |-> "flush", raised |-> FALSE]) =>
          /\ chan = pre.chan /\ groups = pre.groups /\ write_buff = <<>>

C6_Witness ==
    /\ Returned("flush")
    /\ pre.lastop = [op |-> "flush", raised |-> FALSE]
    /\ groups = << <<MsgA, MsgLong>> >>
    /\ chan = EncodeGroup(<<MsgA, MsgLong>>)

(***************************************************************************)
(* C7. close() flushes first: when close() returns without error the       *)
(* buffer is empty and every message passed to write() is on the channel,  *)
(* in complete groups, whatever the buffer_size and the calls before.      *)
(***************************************************************************)
C7_CloseFlushes ==
    Returned("close") =>
        /\ write_buff = <<>>
        /\ Flatten(groups) = Flatten(calls)
        /\ chan = EncodeGroups(groups)
        /\ pre.buff # <<>> => groups = Append(pre.groups, pre.buff)

C7_Witness ==
    /\ Returned("close")
    /\ buffer_size = 2
    /\ calls = << <<MsgA>>, <<MsgLong, MsgA>> >>
    /\ pre.buff = <<MsgA>>
    /\ groups = << <<MsgA, MsgLong>>, <<MsgA>> >>
    /\ write_buff = <<>>

(***************************************************************************)
(* C8. Ownership: a handle constructed from a path has closed its channel, *)
(* once, when close() or __exit__ returns; a handle given an open channel  *)
(* never closes it, whatever calls are made and whether or not they raise. *)
(***************************************************************************)
C8_Ownership ==
    /\ ~byPath => closed = 0
    /\ (byPath /\ (Returned("close") \/ Returned("exit"))) =>
          closed = 1 /\ ~myfd
    /\ closed <= 1

C8_Witness ==
    /\ byPath /\ closed = 1 /\ scope = "left"
    /\ Returned("close")
    /\ pre.lastop = [op |-> "exit", raised |-> FALSE]
    /\ pre.closed = 1
    /\ groups # <<>>

(***************************************************************************)
(* C9. Scoped use: once the with-block of a handle that owns its channel   *)
(* has been left, on any exit path (errors included), the channel has been *)
(* closed exactly once; a later close() does not close it again.           *)
(***************************************************************************)
C9_ScopedClose == (byPath /\ scope = "left") => closed = 1

\* It does hold on the exit paths where no channel write has raised.
C9_ScopedCloseNoFault == faults = 0 => C9_ScopedClose

(***************************************************************************)
(* C10. Delimiters: reading to its end a stream of k >= 1 groups with      *)
(* group_delimiter enabled yields the messages of the groups with exactly  *)
(* one delimiter between two consecutive groups, k - 1 in all, and none    *)
(* inside a group; without group_delimiter no delimiter is yielded.        *)
(***************************************************************************)
C10_Delimiters ==
    (phase = "read" /\ rres = "stop" /\ nextra = 0) =>
        /\ rfd = EncodeGroups(groups)
        /\ group_delim =>
              /\ yielded = Interleave(groups)
              /\ Len(groups) >= 1 => DelimiterCount = Len(groups) - 1
        /\ ~group_delim => DelimiterCount = 0

C10_Witness ==
    /\ phase = "read" /\ rres = "stop" /\ group_delim
    /\ groups = << <<MsgA, MsgLong>>, <<MsgA>> >>
    /\ yielded = <<Msg(MsgA), Msg(MsgLong), Delimiter, Msg(MsgA)>>

(***************************************************************************)
(* The varint of the wire format, for stating the properties of a read:    *)
(* the value of the varint that starts at offset pos of fd and the offset  *)
(* after its last byte; ok is FALSE when the channel ends before a byte    *)
(* without the continuation bit.  Values of 2^28 or more are represented   *)
(* by 2^28.                                                                *)
(***************************************************************************)
RECURSIVE RefVarint(_, _)
RefVarint(fd, pos) ==
    IF pos >= Len(fd) THEN [ok |-> FALSE, val |-> 0, end |-> pos]
    ELSE LET b == fd[pos + 1]
         IN  IF b < 128 THEN [ok |-> TRUE, val |-> b, end |-> pos + 1]
             ELSE LET r == RefVarint(fd, pos + 1)
                      v == IF r.val >= Pow2(21) THEN Pow2(28)
                           ELSE (b - 128) + 128 * r.val
                  IN  [ok |-> r.ok, val |-> v, end |-> r.end]

\* One or more bytes are left at offset pos and all carry the continuation bit.
UnterminatedAt(fd, pos) == pos < Len(fd) /\ ~RefVarint(fd, pos).ok

\* A call that starts in the state p reads a group count first.
ReadsCount(p) == p.count = 0

\* A call that starts in the state p goes on to read a message: it is inside
\* a group, or a non-zero group count starts at its offset, and no delimiter
\* is due.
ReadsMessage(fd, p) ==
    /\ ~p.gflag
    /\ \/ p.count > 0
       \/ RefVarint(fd, p.pos).ok /\ RefVarint(fd, p.pos).val > 0

\* The offset where that call reads the message's size.
SizeAt(fd, p) == IF p.count = 0 THEN RefVarint(fd, p.pos).end ELSE p.pos

(***************************************************************************)
(* C11. Clean end: a __next__ call that finds the channel exhausted where  *)
(* a group count is expected (an empty stream, or the end of a complete    *)
(* group) raises StopIteration: no error, no message, nothing consumed.    *)
(***************************************************************************)
C11_CleanEnd ==
    (phase = "read" /\ rn > 0 /\ ReadsCount(rpre) /\ rpre.pos = Len(rfd)) =>
        /\ rres = "stop"
        /\ yielded = rpre.yielded
        /\ rpos = rpre.pos

C11_Witness ==
    /\ phase = "read" /\ group_delim
    /\ rfd = EncodeGroups(<< <<MsgA, MsgA>>, <<MsgA>> >>)
    /\ rpre.pos = Len(rfd) /\ rpre.count = 0
    /\ rres = "stop" /\ nextra = 0
    /\ yielded = <<Msg(MsgA), Msg(MsgA), Delimiter, Msg(MsgA)>>

(***************************************************************************)
(* C12. Truncation: a __next__ call that reads a message raises EOFError,  *)
(* and yields nothing, when the declared size is larger than the number of *)
(* bytes left on the channel, and when the channel ends where the message  *)
(* should start (the group count declared more messages than there are).   *)
(***************************************************************************)
C12_Truncation ==
    (phase = "read" /\ rn > 0 /\ ReadsMessage(rfd, rpre)) =>
        LET size == RefVarint(rfd, SizeAt(rfd, rpre))
        IN  /\ (size.ok /\ size.val > Len(rfd) - size.end) =>
                  rres = "eof" /\ yielded = rpre.yielded
            /\ SizeAt(rfd, rpre) = Len(rfd) =>
                  rres = "eof" /\ yielded = rpre.yielded

C12_Witness ==
    /\ phase = "read"
    /\ rfd = <<1, 2, 65>>
    /\ rn = 1 /\ rpre.pos = 0 /\ rpre.count = 0
    /\ rres = "eof" /\ rpos = 3
    /\ yielded = <<>>

(***************************************************************************)
(* C13. Truncated varint: when the channel ends after one or more bytes    *)
(* that all carry the continuation bit, the call that reads them as a      *)
(* group count or as a message size raises an error, in __next__ and in    *)
(* __anext__: no item is returned and the sequence does not end cleanly.   *)
(***************************************************************************)
TruncatedVarintRaises(fd, p, res, items) ==
    /\ (ReadsCount(p) /\ UnterminatedAt(fd, p.pos)) =>
          res = "eof" /\ items = p.yielded
    /\ (ReadsMessage(fd, p) /\ UnterminatedAt(fd, SizeAt(fd, p))) =>
          res = "eof" /\ items = p.yielded

C13_TruncatedVarint ==
    /\ (phase = "read" /\ rn > 0) =>
          TruncatedVarintRaises(rfd, rpre, rres, yielded)
    /\ (phase = "read" /\ ares # "none") =>
          TruncatedVarintRaises(rfd, apre, ares, ayielded)

C13_Witness ==
    /\ phase = "read"
    /\ rfd = <<1, 1, 65, 128>>
    /\ rpre.pos = 3 /\ rpre.count = 0 /\ rres = "eof"
    /\ apre.pos = 3 /\ apre.count = 0 /\ ares = "eof"
    /\ yielded = <<Msg(MsgA)>> /\ ayielded = <<Msg(MsgA)>>

(***************************************************************************)
(* C14. Header on write: a write handle configured with a non-empty header *)
(* puts the header bytes on the channel once, before the bytes of the      *)
(* first group, and not again: once a group is out, the channel holds the  *)
(* header followed by the groups.                                          *)
(***************************************************************************)
C14_HeaderWritten ==
    (header # <<>> /\ groups # <<>>) =>
        chan = header \o EncodeGroups(groups)

(***************************************************************************)
(* C15. Header on read: a read handle configured with a header of length n *)
(* on a channel that starts with that header consumes the n bytes before   *)
(* it decodes the first group count: the count the first __next__ call     *)
(* works with is the varint at offset n, and a channel that ends right     *)
(* after the header ends cleanly.                                          *)
(***************************************************************************)
C15_HeaderConsumed ==
    (/\ phase = "read" /\ rn = 1 /\ header # <<>>
     /\ Len(rfd) >= Len(header)
     /\ SubSeq(rfd, 1, Len(header)) = header) =>
        LET v == RefVarint(rfd, Len(header))
        IN  /\ (v.ok /\ v.val >= 1) => count = v.val - 1 /\ rpos >= v.end
            /\ Len(rfd) = Len(header) => rres = "stop" /\ rpos = Len(header)

(***************************************************************************)
(* C16. Async/sync equivalence: on the same byte stream, well-formed or    *)
(* truncated, and with the same delimiter option, __anext__ produces the   *)
(* same items as __next__, ends the same way (the same error or the end of *)
(* the sequence) and at the same offset.                                   *)
(***************************************************************************)
C16_AsyncSync ==
    (phase = "read" /\ Ended /\ nextra = 0 /\ AEnded) =>
        /\ ayielded = yielded
        /\ ares = rres
        /\ apos = rpos

\* The two do agree on the streams __next__ reads to a clean end.
C16_AsyncSyncCleanEnd == rres = "stop" => C16_AsyncSync
(***************************************************************************)
(* C17. Grouping by calls equals grouping by capacity: a message sequence  *)
(* written in consecutive chunks of g >= 1 messages, one write() call per  *)
(* chunk, with buffer_size 0, and the same sequence written in one write() *)
(* call with buffer_size g, both leave the same bytes after close(): the   *)
(* groups of the consecutive chunks of g messages.                         *)
(***************************************************************************)
RECURSIVE Chunks(_, _)
Chunks(seq, g) ==
    IF seq = <<>> THEN <<>>
    ELSE IF Len(seq) <= g THEN <<seq>>
    ELSE <<SubSeq(seq, 1, g)>> \o Chunks(SubSeq(seq, g + 1, Len(seq)), g)

C17_GroupingEquivalence ==
    Returned("close") =>
        /\ (buffer_size > 0 /\ Len(calls) = 1) =>
              chan = EncodeGroups(Chunks(calls[1], buffer_size))
        /\ buffer_size = 0 =>
              \A g \in 1..(MaxMsgs + 1) :
                  calls = Chunks(Flatten(calls), g) =>
                      chan = EncodeGroups(Chunks(Flatten(calls), g))

C17_Witness ==
    /\ Returned("close")
    /\ buffer_size = 1
    /\ calls = << <<MsgA, MsgLong, MsgA>> >>
    /\ auto = 2
    /\ chan = EncodeGroups(<< <<MsgA>>, <<MsgLong>>, <<MsgA>> >>)

(***************************************************************************)
(* C18. Varint framing: when the channel starts with the LEB128 encoding   *)
(* of a value v >= 1 (7 value bits per byte, the continuation bit on every *)
(* byte but the last), whatever bytes follow, _read_varint returns v and   *)
(* consumes exactly that encoding: every byte up to and including the      *)
(* first one without the continuation bit, and none after it.              *)
(***************************************************************************)
C18_VarintFraming ==
    (phase = "varint" /\ vres.by = "sync") =>
        LET r == RefVarint(rfd, 0)
        IN  (r.ok /\ r.val >= 1 /\ SubSeq(rfd, 1, r.end) = VarintBytes(r.val)) =>
                /\ ~vres.err
                /\ vres.val = r.val
                /\ vres.pos = Len(VarintBytes(r.val))
                /\ rfd[vres.pos] < 128
                /\ \A i \in 1..(vres.pos - 1) : rfd[i] >= 128

C18_Witness ==
    /\ phase = "varint" /\ vres.by = "sync"
    /\ rfd = <<255, 255, 1, 128>>
    /\ vres.val = 32767 /\ vres.pos = 3 /\ ~vres.err

(***************************************************************************)
(* C19. No loss, no duplication, no reordering on the write side: while    *)
(* the channel takes the writes, after any write()/flush() calls the       *)
(* messages of the groups emitted, in order, followed by the messages in   *)
(* the buffer, are the messages passed to write() in call and argument     *)
(* order, and the channel holds exactly those groups.                      *)
(***************************************************************************)
C19_NoLossNoDup ==
    (phase = "write" /\ closed = 0) =>
        /\ Flatten(groups) \o write_buff = Flatten(calls)
        /\ chan = EncodeGroups(groups)

C19_Witness ==
    /\ phase = "write" /\ closed = 0
    /\ Returned("write")
    /\ buffer_size = 2
    /\ calls = << <<MsgA>>, <<MsgLong, MsgA>> >>
    /\ groups = << <<MsgA, MsgLong>> >>
    /\ write_buff = <<MsgA>>

(***************************************************************************)
(* C20. Capacity bound: with buffer_size C > 0, when a call returns the    *)
(* buffer holds at most C messages, every group emitted has at most C      *)
(* messages, and every group emitted by an automatic flush (a flush made   *)
(* inside write()) has exactly C messages.                                 *)
(***************************************************************************)
C20_CapacityBound ==
    buffer_size > 0 =>
        /\ Len(write_buff) <= buffer_size
        /\ \A i \in 1..Len(groups) : Len(groups[i]) <= buffer_size
        /\ Returned("write") =>
              /\ Len(groups) - Len(pre.groups) = auto - pre.auto
              /\ \A i \in (Len(pre.groups) + 1)..Len(groups) :
                    Len(groups[i]) = buffer_size

C20_Witness ==
    /\ buffer_size = 2
    /\ Returned("write")
    /\ pre.buff = <<MsgA, MsgLong>>
    /\ LastArgs = <<MsgA>>
    /\ auto = pre.auto + 1
    /\ groups = << <<MsgA, MsgLong>> >>
    /\ write_buff = <<MsgA>>

(***************************************************************************)
(* C21. Zero group count: a __next__ call that decodes a group count of 0  *)
(* raises StopIteration: no error, no item, and only the bytes of that     *)
(* varint consumed, whether or not more bytes follow on the channel.       *)
(***************************************************************************)
C21_ZeroCount ==
    (/\ phase = "read" /\ rn > 0 /\ ReadsCount(rpre)
     /\ RefVarint(rfd, rpre.pos).ok
     /\ RefVarint(rfd, rpre.pos).val = 0) =>
        /\ rres = "stop"
        /\ yielded = rpre.yielded
        /\ rpos = RefVarint(rfd, rpre.pos).end
        /\ count = 0

C21_Witness ==
    /\ phase = "read"
    /\ rfd = <<0, 1, 1, 65>>
    /\ rn = 1
    /\ rres = "stop"
    /\ rpos = 1
    /\ yielded = <<>>

\* The channel is exhausted at offset p, or the varint there is 0.
ZeroSizeAt(fd, p) ==
    \/ p = Len(fd)
    \/ RefVarint(fd, p).ok /\ RefVarint(fd, p).val = 0

(***************************************************************************)
(* C22. Zero message size: a __next__ or __anext__ call that goes on to    *)
(* read a message and finds a size of 0, from a zero varint or from the    *)
(* end of the channel, raises EOFError and yields nothing; __next__ never  *)
(* yields a zero-length message.                                           *)
(***************************************************************************)
C22_ZeroSize ==
    /\ (/\ phase = "read" /\ rn > 0 /\ ReadsMessage(rfd, rpre)
        /\ ZeroSizeAt(rfd, SizeAt(rfd, rpre))) =>
           /\ rres = "eof"
           /\ yielded = rpre.yielded
    /\ (/\ phase = "read" /\ ares # "none" /\ ReadsMessage(rfd, apre)
        /\ ZeroSizeAt(rfd, SizeAt(rfd, apre))) =>
           /\ ares = "eof"
           /\ ayielded = apre.yielded
    /\ \A i \in 1..Len(yielded) : yielded[i] # Msg(<<>>)

C22_Witness ==
    /\ phase = "read"
    /\ rfd = <<2, 1, 65, 0>>
    /\ rn = 2 /\ rres = "eof" /\ yielded = <<Msg(<<65>>)>>
    /\ ares = "eof" /\ ayielded = <<Msg(<<65>>)>> /\ apos = 4

(***************************************************************************)
(* C23. Delimiter before the next count: with delimiters enabled, the      *)
(* __next__ call that follows the last message of a group returns the      *)
(* delimiter without reading from the channel, so that no byte of the next *)
(* group is consumed before the delimiter is returned.                     *)
(***************************************************************************)
C23_DelimiterBeforeCount ==
    (/\ phase = "read" /\ rn > 0 /\ group_delim
     /\ rpre.gflag /\ rpre.count = 0) =>
        /\ rres = "delim"
        /\ rpos = rpre.pos

\* What __next__ does instead: the delimiter is returned by the call that has
\* read the next group's non-zero count, and by no other.
C23_DelimiterAfterCount ==
    (phase = "read" /\ rn > 0 /\ rres = "delim") =>
        /\ rpre.gflag /\ ~gflag
        /\ rpre.count = 0 =>
              /\ RefVarint(rfd, rpre.pos).ok
              /\ RefVarint(rfd, rpre.pos).val > 0
              /\ rpos = RefVarint(rfd, rpre.pos).end
        /\ yielded = Append(rpre.yielded, Delimiter)

(***************************************************************************)
(* C24. Failed flush: a flush() call in which a channel write raises (at   *)
(* the count varint, at a size varint or at a payload) raises to its       *)
(* caller and leaves the buffer with the messages it had before the call,  *)
(* in the same order; no group is counted as emitted.                      *)
(***************************************************************************)
C24_FailedFlush ==
    lastop.op = "flush" =>
        /\ lastop.raised =>
              /\ write_buff = pre.buff
              /\ groups = pre.groups
        /\ (chan # pre.chan /\ groups = pre.groups) => lastop.raised
        /\ (pre.closed > 0 /\ pre.buff # <<>>) => lastop.raised

C24_Witness ==
    /\ lastop = [op |-> "flush", raised |-> TRUE]
    /\ pre.buff = <<MsgA, MsgA>>
    /\ write_buff = <<MsgA, MsgA>>
    /\ chan = pre.chan \o <<2, 1, 65, 1>>
    /\ groups = pre.groups

(***************************************************************************)
(* C25. Errors end the stream: once a __next__ call on a read handle has   *)
(* raised a decode error, a later call on that handle yields neither a     *)
(* message nor a delimiter.                                                *)
(***************************************************************************)
C25_ErrorsEndStream ==
    (phase = "read" /\ rfirst = "eof" /\ nextra > 0) =>
        /\ rres \notin {"msg", "delim"}
        /\ yielded = rpre.yielded

(***************************************************************************)
(* C30. End of sequence is final: once __next__ on a read handle has       *)
(* raised StopIteration, every later __next__ call on that handle raises   *)
(* StopIteration too and yields nothing.                                   *)
(***************************************************************************)
C30_StopIsFinal ==
    (phase = "read" /\ rfirst = "stop" /\ nextra > 0) =>
        /\ rres = "stop"
        /\ yielded = rpre.yielded

(***************************************************************************)
(* C26. Streaming and materialising decoders agree: on the same byte       *)
(* stream, __next__ without delimiters and the generator of                *)
(* Stream._create_iterator of stream.py yield the same messages, and both  *)
(* end cleanly or both fail, at the same offset.                           *)
(***************************************************************************)
C26_DecodersAgree ==
    (phase = "read" /\ ~group_delim /\ Ended /\ nextra = 0 /\ IterEnded) =>
        /\ myielded = yielded
        /\ mres = "stop" <=> rres = "stop"
        /\ mpos = rpos

\* The two do agree on the output of the write handle: complete groups,
\* no count of 0 and no size of 0.
C26_DecodersAgreeOnGroups ==
    (/\ phase = "read" /\ ~group_delim /\ Ended /\ nextra = 0 /\ IterEnded
     /\ \E gs \in {<< <<MsgA, MsgA>>, <<MsgA>> >>, << <<MsgLong>>, <<MsgA>> >>} :
            rfd = EncodeGroups(gs)) =>
        /\ myielded = yielded
        /\ mres = "stop" /\ rres = "stop"
        /\ mpos = rpos

(***************************************************************************)
(* C27. Cancellation of an async read: when the consumer of __anext__ is   *)
(* cancelled while the call is suspended in a channel read, the channel    *)
(* offset stays where it was when the call started, just after the last    *)
(* item returned, and the handle's group state is the one of that offset:  *)
(* no byte of the item being decoded counts as consumed.                   *)
(***************************************************************************)
C27_CancelKeepsOffset ==
    (phase = "read" /\ ares = "cancel") =>
        /\ apos = apre.pos
        /\ acount = apre.count
        /\ agflag = apre.gflag

\* Nothing is consumed only when the cancellation arrives at the first read
\* of the call; and a cancelled call never yields.
C27_CancelYieldsNothing ==
    (phase = "read" /\ ares = "cancel") =>
        /\ ayielded = apre.yielded
        /\ apos >= apre.pos

(***************************************************************************)
(* C28. Payload fixed at write time: the messages emitted are, in order,   *)
(* the serializations the messages had when they were passed to write(),   *)
(* whatever the caller does to the objects between write() and the flush   *)
(* that emits them.                                                        *)
(***************************************************************************)
C28_PayloadFixedAtWrite ==
    LET emitted == Flatten(groups)
        passed == Flatten(calls)
    IN  /\ Len(emitted) <= Len(passed)
        /\ emitted = SubSeq(passed, 1, Len(emitted))

(***************************************************************************)
(* C29. No empty group on the wire: whatever write() calls (also with no   *)
(* message), flush() and close() calls are made and whatever the capacity, *)
(* every group the write handle emits has at least one message and the     *)
(* channel holds exactly those groups, so no group count on it is 0; a     *)
(* reader of that output raises StopIteration first only at the end of the *)
(* channel.                                                                *)
(***************************************************************************)
C29_NoEmptyGroup ==
    /\ \A i \in 1..Len(groups) : groups[i] # <<>>
    /\ chan = EncodeGroups(groups)
    /\ phase = "read" =>
          /\ rfd = chan
          /\ (rres = "stop" /\ nextra = 0) => rpos = Len(rfd)

C29_Witness ==
    /\ phase = "read" /\ rres = "stop" /\ nextra = 0
    /\ buffer_size = 0
    /\ calls = << <<>>, <<MsgA>>, <<>> >>
    /\ groups = << <<MsgA>> >>
    /\ rpos = Len(rfd)
    /\ yielded = <<Msg(MsgA)>>

(***************************************************************************)
(* C31. Reader flag invariant: in every state of a read handle, whatever   *)
(* the byte stream and the calls made (also after an error), _gflag is set *)
(* only if group_delimiter is enabled, so that `assert self._group_delim`  *)
(* never fails in __next__ or __anext__, and _count is never negative.     *)
(***************************************************************************)
C31_ReaderFlags ==
    /\ gflag => group_delim
    /\ agflag => group_delim
    /\ count >= 0
    /\ acount >= 0
    /\ rres # "assert"
    /\ ares # "assert"

C31_Witness ==
    /\ phase = "read" /\ group_delim
    /\ rfd = <<1, 0, 1>>
    /\ rfirst = "eof" /\ nextra = 1
    /\ rpre.gflag /\ rpre.count = 0
    /\ rres = "delim"
    /\ ~gflag /\ count = 1

=============================================================================
